---- MODULE Spec2Model ----
(***************************************************************************)
(* rdkafka-ext: the capability-based configuration builders                *)
(* (src/builders) and the typed topic layer (src/lib.rs).                  *)
(*                                                                         *)
(* SpecBuilder drives one role builder from new through a chain of option  *)
(* setters to build.  SpecTyped drives a TypedProducer and a TypedConsumer *)
(* against one broker; SpecAdmin drives a TypedAdmin.                      *)
(***************************************************************************)
EXTENDS Integers, Sequences, FiniteSets, TLC

VARIABLES
    builder,    \* the role builder: [state, role, config]
    built,      \* the ClientConfig returned by build: [present, config]
    lastCall,   \* history: option name -> the last setter call that wrote it
    ncalls,     \* history: number of setter calls made so far
    broker,     \* the broker: [topics, log]
    producer,   \* the TypedProducer and its caller
    consumer,   \* the TypedConsumer and its caller
    admin       \* the TypedAdmin and the callers of create_topic

vars == <<builder, built, lastCall, ncalls, broker, producer, consumer, admin>>

builderVars == <<builder, built, lastCall, ncalls>>
typedVars == <<broker, producer, consumer, admin>>

----------------------------------------------------------------------------
(* Bounds *)

MaxCalls == 3

----------------------------------------------------------------------------
(* Argument domains of the option setters *)

\* std::time::Duration as whole seconds plus sub-second nanoseconds
Durations ==
    { [secs |-> 0, nanos |-> 1500000],
      [secs |-> 3, nanos |-> 0] }

Counts == {500}
SignedCounts == {-1}
Strs == {"a"}
StrLists == { <<>>, <<"h1:9092">>, <<"h1:9092", "h2:9092">> }

----------------------------------------------------------------------------
(* Value conversions *)

Digit == <<"0", "1", "2", "3", "4", "5", "6", "7", "8", "9">>

RECURSIVE nat_to_string(_)
nat_to_string(n) ==
    IF n < 10 THEN Digit[n + 1]
    ELSE nat_to_string(n \div 10) \o Digit[(n % 10) + 1]

\* ToString of the integer types (usize, isize, u128): decimal, '-' if negative
int_to_string(n) ==
    IF n < 0 THEN "-" \o nat_to_string(0 - n) ELSE nat_to_string(n)

bool_to_string(b) == IF b THEN "true" ELSE "false"

\* Duration::as_millis and Duration::as_micros: whole units, truncating
as_millis(d) == d.secs * 1000 + (d.nanos \div 1000000)
as_micros(d) == d.secs * 1000000 + (d.nanos \div 1000)

Resets == {"Latest", "Earliest", "None"}
Reset_to_string(r) ==
    CASE r = "Latest" -> "latest"
      [] r = "Earliest" -> "earliest"
      [] r = "None" -> "none"

DnsLookups == {"UseAllDnsIps", "ResolveCanonicalBootstrapServersOnly"}
DnsLookup_to_string(l) ==
    CASE l = "UseAllDnsIps" -> "use_all_dns_ips"
      [] l = "ResolveCanonicalBootstrapServersOnly" ->
             "resolve_canonical_bootstrap_servers_only"

RecordingLevels == {"Trace", "Debug", "Info"}
RecordingLevel_to_string(l) ==
    CASE l = "Trace" -> "TRACE"
      [] l = "Debug" -> "DEBUG"
      [] l = "Info" -> "INFO"

SecurityProtocols == {"Plaintext", "Ssl", "SaslPlaintext", "SaslSsl"}
SecurityProtocol_to_string(p) ==
    CASE p = "Plaintext" -> "PLAINTEXT"
      [] p = "Ssl" -> "SSL"
      [] p = "SaslPlaintext" -> "SASL_PLAINTEXT"
      [] p = "SaslSsl" -> "SASL_SSL"

\* vals.iter().flat_map(|val| [val.as_ref(), ","]).collect::<String>()
RECURSIVE flat_map_comma(_)
flat_map_comma(vals) ==
    IF vals = <<>> THEN ""
    ELSE Head(vals) \o "," \o flat_map_comma(Tail(vals))

----------------------------------------------------------------------------
(* The Option-Set primitive and the role builders *)

ClientConfig_new_zero_retries == [k \in {"retries"} |-> "0"]

\* ClientConfig::new(): no options
ClientConfig_new == [k \in {} |-> ""]

set_keep_first(config, key, value) ==
    [k \in (DOMAIN config) \cup {key} |->
        IF k \in DOMAIN config THEN config[k] ELSE value]

set_replace_all(config, key, value) == [k \in {key} |-> value]

\* self.config.set(key, value.to_string()): insert or overwrite one entry
set(config, key, value) ==
    [k \in (DOMAIN config) \cup {key} |-> IF k = key THEN value ELSE config[k]]

\* which roles implement which capability trait
KafkaConfigBuilder == {"Producer", "Consumer", "Admin"}
SslConfigBuilder == {"Producer", "Consumer", "Admin"}
SaslConfigBuilder == {"Producer", "Consumer", "Admin"}
ApiTimeoutConfigBuilder == {"Consumer", "Admin"}
RetriesConfigBuilder == {"Producer", "Admin"}

\* placeholders for "no builder yet", "nothing built yet", "no call yet"
EmptyMap == [k \in {} |-> ""]
NoBuilder == [state |-> "none", role |-> "none", config |-> EmptyMap]
NoConfig == [present |-> FALSE, config |-> EmptyMap]
NoCalls == EmptyMap

\* XConfigBuilder::new(): a builder holding ClientConfig::new()
new(role) ==
    /\ builder.state = "none"
    /\ builder' = [state |-> "open", role |-> role, config |-> ClientConfig_new]
    /\ UNCHANGED <<built, lastCall, ncalls>>
    /\ UNCHANGED typedVars

ProducerConfigBuilder_new == new("Producer")
ConsumerConfigBuilder_new == new("Consumer")
AdminConfigBuilder_new == new("Admin")

build_fresh(role) ==
    /\ builder.state = "open"
    /\ builder.role = role
    /\ built' = [present |-> TRUE, config |-> EmptyMap]
    /\ builder' = [builder EXCEPT !.state = "moved"]
    /\ UNCHANGED <<lastCall, ncalls>>
    /\ UNCHANGED typedVars

\* XConfigBuilder::build(self): moves the configuration out of the builder
build(role) ==
    /\ builder.state = "open"
    /\ builder.role = role
    /\ built' = [present |-> TRUE, config |-> builder.config]
    /\ builder' = [builder EXCEPT !.state = "moved"]
    /\ UNCHANGED <<lastCall, ncalls>>
    /\ UNCHANGED typedVars

ProducerConfigBuilder_build == build("Producer")
ConsumerConfigBuilder_build == build("Consumer")
AdminConfigBuilder_build == build("Admin")

\* One fluent setter call `fn op(mut self, arg) -> Self { self.set(key, v); self }`
\* on a builder of a role in `roles`; value is v.to_string().
setter(roles, op, key, value, arg) ==
    /\ builder.state = "open"
    /\ builder.role \in roles
    /\ ncalls < MaxCalls
    /\ builder' = [builder EXCEPT !.config = set(@, key, value)]
    /\ lastCall' = [k \in (DOMAIN lastCall) \cup {key} |->
                      IF k = key
                      THEN [op |-> op, value |-> value, arg |-> arg,
                            changed |-> /\ key \in DOMAIN lastCall
                                        /\ lastCall[key].value # value]
                      ELSE lastCall[k]]
    /\ ncalls' = ncalls + 1
    /\ UNCHANGED built
    /\ UNCHANGED typedVars

\* the builders that implement Set
SetRoles == {"Producer", "Consumer", "Admin"}

\* names a caller passes to Set::set directly: one no setter writes, and one
\* that a setter of only some roles writes
SetKeys == {"any.name.at.all", "retries"}
SetValues == {42}

\* Set::set called directly: any name, any value with to_string, any role
Set_set ==
    \E key \in SetKeys, value \in SetValues :
        setter(SetRoles, "Set::set", key, int_to_string(value), value)

----------------------------------------------------------------------------
(* trait KafkaConfigBuilder *)

bootstrap_servers ==
    \E urls \in StrLists :
        setter(KafkaConfigBuilder, "bootstrap_servers", "bootstrap.servers",
               flat_map_comma(urls), urls)

client_dns_lookup ==
    \E lookup \in DnsLookups :
        setter(KafkaConfigBuilder, "client_dns_lookup", "client.dns.lookup",
               DnsLookup_to_string(lookup), lookup)

client_id ==
    \E id \in Strs :
        setter(KafkaConfigBuilder, "client_id", "client.id", id, id)

connections_max_idle ==
    \E idle \in Durations :
        setter(KafkaConfigBuilder, "connections_max_idle",
               "connections.max.idle.ms", int_to_string(as_millis(idle)), idle)

metadata_max_age ==
    \E age \in Durations :
        setter(KafkaConfigBuilder, "metadata_max_age", "metadata.max.age.ms",
               int_to_string(as_millis(age)), age)

metric_reporters ==
    \E vals \in StrLists :
        setter(KafkaConfigBuilder, "metric_reporters", "metric.reporters",
               flat_map_comma(vals), vals)

metrics_num_samples ==
    \E val \in Counts :
        setter(KafkaConfigBuilder, "metrics_num_samples", "metrics.num.samples",
               int_to_string(val), val)

metrics_recording_level ==
    \E val \in RecordingLevels :
        setter(KafkaConfigBuilder, "metrics_recording_level",
               "metrics.recording.level", RecordingLevel_to_string(val), val)

metrics_sample_window ==
    \E window \in Durations :
        setter(KafkaConfigBuilder, "metrics_sample_window",
               "metrics.sample.window.ms", int_to_string(as_millis(window)),
               window)

receive_buffer_bytes ==
    \E count \in SignedCounts :
        setter(KafkaConfigBuilder, "receive_buffer_bytes",
               "receive.buffer.bytes", int_to_string(count), count)

reconnect_backoff_max ==
    \E max \in Durations :
        setter(KafkaConfigBuilder, "reconnect_backoff_max",
               "reconnect.backoff.max.ms", int_to_string(as_millis(max)), max)

reconnect_backoff ==
    \E backoff \in Durations :
        setter(KafkaConfigBuilder, "reconnect_backoff", "reconnect.backoff.ms",
               int_to_string(as_millis(backoff)), backoff)

request_timeout ==
    \E timeout \in Durations :
        setter(KafkaConfigBuilder, "request_timeout", "request.timeout.ms",
               int_to_string(as_millis(timeout)), timeout)

retry_backoff ==
    \E backoff \in Durations :
        setter(KafkaConfigBuilder, "retry_backoff", "retry.backoff.ms",
               int_to_string(as_millis(backoff)), backoff)

security_protocol ==
    \E protocol \in SecurityProtocols :
        setter(KafkaConfigBuilder, "security_protocol", "security.protocol",
               SecurityProtocol_to_string(protocol), protocol)

security_providers ==
    \E vals \in StrLists :
        setter(KafkaConfigBuilder, "security_providers", "security.providers",
               flat_map_comma(vals), vals)

send_buffer_bytes ==
    \E count \in Counts :
        setter(KafkaConfigBuilder, "send_buffer_bytes", "send.buffer.bytes",
               int_to_string(count), count)

socket_connection_setup_timeout_max ==
    \E max \in Durations :
        setter(KafkaConfigBuilder, "socket_connection_setup_timeout_max",
               "socket.connection.setup.timeout.max.ms",
               int_to_string(as_millis(max)), max)

socket_connection_setup_timeout ==
    \E val \in Durations :
        setter(KafkaConfigBuilder, "socket_connection_setup_timeout",
               "socket.connection.setup.timeout.ms",
               int_to_string(as_millis(val)), val)

----------------------------------------------------------------------------
(* traits SslConfigBuilder, ApiTimeoutConfigBuilder, RetriesConfigBuilder *)

ssl_key_password ==
    \E password \in Strs :
        setter(SslConfigBuilder, "ssl_key_password", "ssl.key.password",
               password, password)

ssl_keystore_certificate_chain ==
    \E chain \in Strs :
        setter(SslConfigBuilder, "ssl_keystore_certificate_chain",
               "ssl.keystore.certificate.chain", chain, chain)

ssl_keystore_key ==
    \E key \in Strs :
        setter(SslConfigBuilder, "ssl_keystore_key", "ssl.keystore.key",
               key, key)

default_api_timeout ==
    \E timeout \in Durations :
        setter(ApiTimeoutConfigBuilder, "default_api_timeout",
               "default.api.timeout.ms", int_to_string(as_micros(timeout)),
               timeout)

retries ==
    \E count \in Counts :
        setter(RetriesConfigBuilder, "retries", "retries",
               int_to_string(count), count)

----------------------------------------------------------------------------
(* impl ConsumerConfigBuilder: the consumer-only setters *)

ConsumerOnly == {"Consumer"}

fetch_min_bytes ==
    \E count \in Counts :
        setter(ConsumerOnly, "fetch_min_bytes", "fetch.min.bytes",
               int_to_string(count), count)

group_id ==
    \E id \in Strs :
        setter(ConsumerOnly, "group_id", "group.id", id, id)

heartbeat_interval ==
    \E interval \in Durations :
        setter(ConsumerOnly, "heartbeat_interval", "heartbeat.interval.ms",
               int_to_string(as_micros(interval)), interval)

max_partition_fetch_bytes ==
    \E count \in Counts :
        setter(ConsumerOnly, "max_partition_fetch_bytes",
               "max.partition.fetch.bytes", int_to_string(count), count)

session_timeout ==
    \E timeout \in Durations :
        setter(ConsumerOnly, "session_timeout", "session.timeout.ms",
               int_to_string(as_micros(timeout)), timeout)

allow_auto_create_topics ==
    \E allow \in BOOLEAN :
        setter(ConsumerOnly, "allow_auto_create_topics",
               "allow.auto.create.topics", bool_to_string(allow), allow)

auto_offset_reset ==
    \E reset \in Resets :
        setter(ConsumerOnly, "auto_offset_reset", "auto.offset.reset",
               Reset_to_string(reset), reset)

\* the inherent method, which method-call syntax on a consumer builder selects
ConsumerConfigBuilder_connections_max_idle ==
    \E idle \in Durations :
        setter(ConsumerOnly, "ConsumerConfigBuilder::connections_max_idle",
               "connections.max.idle.ms", int_to_string(as_micros(idle)), idle)

default_api_timout ==
    \E timeout \in Durations :
        setter(ConsumerOnly, "default_api_timout", "default.api.timeout.ms",
               int_to_string(as_micros(timeout)), timeout)

enable_auto_commit ==
    \E commit \in BOOLEAN :
        setter(ConsumerOnly, "enable_auto_commit", "enable.auto.commit",
               bool_to_string(commit), commit)

exclude_internal_topics ==
    \E exclude \in BOOLEAN :
        setter(ConsumerOnly, "exclude_internal_topics",
               "exclude.internal.topics", bool_to_string(exclude), exclude)

fetch_max_bytes ==
    \E count \in Counts :
        setter(ConsumerOnly, "fetch_max_bytes", "fetch.max.bytes",
               int_to_string(count), count)

group_instance_id ==
    \E id \in Strs :
        setter(ConsumerOnly, "group_instance_id", "group.instance.id", id, id)

max_poll_interval ==
    \E interval \in Durations :
        setter(ConsumerOnly, "max_poll_interval", "max.poll.interval.ms",
               int_to_string(as_micros(interval)), interval)

max_poll_records ==
    \E count \in Counts :
        setter(ConsumerOnly, "max_poll_records", "max.poll.records",
               int_to_string(count), count)

----------------------------------------------------------------------------
(* The builder specification *)

IdleTyped == [state |-> "none"]

InitBuilder ==
    /\ builder = NoBuilder
    /\ built = NoConfig
    /\ lastCall = NoCalls
    /\ ncalls = 0
    /\ broker = IdleTyped
    /\ producer = IdleTyped
    /\ consumer = IdleTyped
    /\ admin = IdleTyped

NextBuilder ==
    \/ ProducerConfigBuilder_new
    \/ ConsumerConfigBuilder_new
    \/ AdminConfigBuilder_new
    \/ ProducerConfigBuilder_build
    \/ ConsumerConfigBuilder_build
    \/ AdminConfigBuilder_build
    \/ Set_set
    \/ bootstrap_servers
    \/ client_dns_lookup
    \/ client_id
    \/ connections_max_idle
    \/ metadata_max_age
    \/ metric_reporters
    \/ metrics_num_samples
    \/ metrics_recording_level
    \/ metrics_sample_window
    \/ receive_buffer_bytes
    \/ reconnect_backoff_max
    \/ reconnect_backoff
    \/ request_timeout
    \/ retry_backoff
    \/ security_protocol
    \/ security_providers
    \/ send_buffer_bytes
    \/ socket_connection_setup_timeout_max
    \/ socket_connection_setup_timeout
    \/ ssl_key_password
    \/ ssl_keystore_certificate_chain
    \/ ssl_keystore_key
    \/ default_api_timeout
    \/ retries
    \/ fetch_min_bytes
    \/ group_id
    \/ heartbeat_interval
    \/ max_partition_fetch_bytes
    \/ session_timeout
    \/ allow_auto_create_topics
    \/ auto_offset_reset
    \/ ConsumerConfigBuilder_connections_max_idle
    \/ default_api_timout
    \/ enable_auto_commit
    \/ exclude_internal_topics
    \/ fetch_max_bytes
    \/ group_instance_id
    \/ max_poll_interval
    \/ max_poll_records

SpecBuilder == InitBuilder /\ [][NextBuilder]_vars

----------------------------------------------------------------------------
(* Topics, payloads and the codec (src/lib.rs) *)

MaxLog == 2
MaxForeign == 2
MaxElements == 3
MaxCreates == 3

\* example::SessionTopic { id }
TopicIds == {"abc", "s2d54f"}
Topics == { [id |-> i] : i \in TopicIds }

\* format!("session:{}", self.id)
topic_string(topic) == "session:" \o topic.id

\* example::Update, and one payload value whose Serialize impl reports an error
Update == {"Thing1", "Thing2"}
NotEncodable == "NotEncodable"
Payloads == Update \cup {NotEncodable}

\* the ASCII bytes of a variant name
VariantBytes(p) ==
    IF p = "Thing1" THEN <<84, 104, 105, 110, 103, 49>>
    ELSE <<84, 104, 105, 110, 103, 50>>

Ok(v) == [ok |-> TRUE, value |-> v]
Err == [ok |-> FALSE, value |-> <<>>]

\* serde_json::to_vec on an Update: the variant name as a JSON string
serde_json_to_vec(payload) ==
    IF payload \in Update THEN Ok(<<34>> \o VariantBytes(payload) \o <<34>>)
    ELSE Err

JsonWhitespace == {32, 9, 10, 13}

RECURSIVE TrimLeft(_)
TrimLeft(bytes) ==
    IF bytes # <<>> /\ Head(bytes) \in JsonWhitespace
    THEN TrimLeft(Tail(bytes)) ELSE bytes

\* str::as_bytes: the UTF-8 encoding of a sequence of code points
RECURSIVE as_bytes(_)
as_bytes(s) ==
    IF s = <<>> THEN <<>>
    ELSE LET cp == Head(s)
             enc == IF cp < 128 THEN <<cp>>
                    ELSE IF cp < 2048
                    THEN <<192 + (cp \div 64), 128 + (cp % 64)>>
                    ELSE IF cp < 65536
                    THEN <<224 + (cp \div 4096),
                           128 + ((cp \div 64) % 64),
                           128 + (cp % 64)>>
                    ELSE <<240 + (cp \div 262144),
                           128 + ((cp \div 4096) % 64),
                           128 + ((cp \div 64) % 64),
                           128 + (cp % 64)>>
         IN  enc \o as_bytes(Tail(s))

\* the value of a hexadecimal digit, -1 for any other byte
HexDigit(b) ==
    IF b \in 48..57 THEN b - 48
    ELSE IF b \in 65..70 THEN b - 55
    ELSE IF b \in 97..102 THEN b - 87
    ELSE -1

\* the four hexadecimal digits of a \u escape, -1 if they are not four digits
Hex4(bytes) ==
    IF Len(bytes) < 4 THEN -1
    ELSE IF \E n \in 1..4 : HexDigit(bytes[n]) = -1 THEN -1
    ELSE HexDigit(bytes[1]) * 4096 + HexDigit(bytes[2]) * 256
           + HexDigit(bytes[3]) * 16 + HexDigit(bytes[4])

\* the byte a one-letter escape stands for, -1 for an unknown letter
SimpleEscape(b) ==
    IF b \in {34, 92, 47} THEN b
    ELSE IF b = 98 THEN 8
    ELSE IF b = 102 THEN 12
    ELSE IF b = 110 THEN 10
    ELSE IF b = 114 THEN 13
    ELSE IF b = 116 THEN 9
    ELSE -1

StrError == [ok |-> FALSE, value |-> <<>>, rest |-> <<>>]

\* whether the first n bytes after the head are continuation bytes, the first
\* of them within lo..hi
Continues(bytes, n, lo, hi) ==
    /\ Len(bytes) > n
    /\ bytes[2] \in lo..hi
    /\ \A k \in 2..(n + 1) : bytes[k] \in 128..191

\* str::from_utf8: no stray or missing continuation byte, no overlong form,
\* no encoded surrogate, nothing above U+10FFFF
RECURSIVE from_utf8(_)
from_utf8(bytes) ==
    IF bytes = <<>> THEN TRUE
    ELSE LET b == Head(bytes)
             n == IF b < 128 THEN 0
                  ELSE IF b \in 194..223 THEN 1
                  ELSE IF b \in 224..239 THEN 2
                  ELSE IF b \in 240..244 THEN 3
                  ELSE -1
             lo == IF b = 224 THEN 160 ELSE IF b = 240 THEN 144 ELSE 128
             hi == IF b = 237 THEN 159 ELSE IF b = 244 THEN 143 ELSE 191
         IN  /\ n # -1
             /\ n > 0 => Continues(bytes, n, lo, hi)
             /\ from_utf8(SubSeq(bytes, n + 2, Len(bytes)))

\* a JSON string after its opening quote: the bytes it denotes, which must be
\* UTF-8, and the bytes that follow its closing quote
RECURSIVE parse_str(_, _)
parse_str(bytes, acc) ==
    IF bytes = <<>> THEN StrError
    ELSE IF Head(bytes) = 34
    THEN IF from_utf8(acc)
         THEN [ok |-> TRUE, value |-> acc, rest |-> Tail(bytes)]
         ELSE StrError
    ELSE IF Head(bytes) < 32 THEN StrError
    ELSE IF Head(bytes) # 92
    THEN parse_str(Tail(bytes), Append(acc, Head(bytes)))
    ELSE IF Len(bytes) < 2 THEN StrError
    ELSE IF bytes[2] # 117
    THEN IF SimpleEscape(bytes[2]) = -1 THEN StrError
         ELSE parse_str(SubSeq(bytes, 3, Len(bytes)),
                        Append(acc, SimpleEscape(bytes[2])))
    ELSE LET hi == Hex4(SubSeq(bytes, 3, Len(bytes)))
             after == SubSeq(bytes, 7, Len(bytes))
         IN  IF hi = -1 \/ hi \in 56320..57343 THEN StrError
             ELSE IF hi \notin 55296..56319
             THEN parse_str(after, acc \o as_bytes(<<hi>>))
             ELSE IF Len(after) < 2 \/ after[1] # 92 \/ after[2] # 117
             THEN StrError
             ELSE LET lo == Hex4(SubSeq(after, 3, Len(after)))
                  IN  IF lo \notin 56320..57343 THEN StrError
                      ELSE parse_str(
                             SubSeq(after, 7, Len(after)),
                             acc \o as_bytes(<<65536 + (hi - 55296) * 1024
                                                 + (lo - 56320)>>))

\* the variant a parsed string names, if any
Variant(str) ==
    LET matches == { p \in Update : str.ok /\ str.value = VariantBytes(p) }
    IN  IF matches # {} THEN Ok(CHOOSE p \in matches : TRUE)
        ELSE [ok |-> FALSE, value |-> ""]

\* whether the bytes are: whitespace, the literal, whitespace, then rest
Expect(bytes, literal) ==
    LET t == TrimLeft(bytes)
    IN  /\ Len(t) >= Len(literal)
        /\ SubSeq(t, 1, Len(literal)) = literal

After(bytes, literal) ==
    LET t == TrimLeft(bytes)
    IN  SubSeq(t, Len(literal) + 1, Len(t))

\* serde_json::from_slice::<Update>: a unit variant is read from the JSON
\* string "V" or from the object {"V": null}, with whitespace between tokens
\* and nothing but whitespace after the value
serde_json_from_slice(bytes) ==
    IF Expect(bytes, <<34>>)
    THEN LET str == parse_str(After(bytes, <<34>>), <<>>)
         IN  IF str.ok /\ TrimLeft(str.rest) = <<>> THEN Variant(str)
             ELSE [ok |-> FALSE, value |-> ""]
    ELSE IF Expect(bytes, <<123>>) /\ Expect(After(bytes, <<123>>), <<34>>)
    THEN LET str == parse_str(After(After(bytes, <<123>>), <<34>>), <<>>)
             value == After(str.rest, <<58>>)
             close == After(value, <<110, 117, 108, 108>>)
         IN  IF /\ Variant(str).ok
                /\ Expect(str.rest, <<58>>)
                /\ Expect(value, <<110, 117, 108, 108>>)
                /\ Expect(close, <<125>>)
                /\ TrimLeft(After(close, <<125>>)) = <<>>
             THEN Variant(str)
             ELSE [ok |-> FALSE, value |-> ""]
    ELSE [ok |-> FALSE, value |-> ""]

\* keys are Strings, here sequences of code points: "k", "e-acute" and a
\* character outside the basic plane
KeyStrings == { <<107, 233, 128512>> }

None == [present |-> FALSE, value |-> <<>>]
Some(v) == [present |-> TRUE, value |-> v]

OptKeys == {None} \cup { Some(k) : k \in KeyStrings }

\* history carried by a record: the send call that produced it, if any
NoOrigin ==
    [typed |-> FALSE, topic |-> [id |-> ""], payload |-> "", key |-> None]

FutureRecord_keyless(topic_name, bytes, key) ==
    [topic |-> topic_name, payload |-> Some(bytes), key |-> None]

\* FutureRecord::to(&topic_string).payload(&bytes), with .key(key) if Some
FutureRecord(topic_name, bytes, key) ==
    [topic |-> topic_name,
     payload |-> Some(bytes),
     key |-> IF key.present THEN Some(as_bytes(key.value)) ELSE None]

NoRecord == [topic |-> "", payload |-> None, key |-> None, origin |-> NoOrigin]

\* payloads that producers outside this layer put on the topics:
\* a tombstone, text that is not an Update, and the two accepted forms
ForeignPayloads ==
    { None,
      Some(<<110, 111, 112, 101>>),
      Some(<<34, 84, 255, 34>>),
      Some(<<32, 34>> \o VariantBytes("Thing2") \o <<34, 10>>),
      Some(<<123, 32, 34, 84, 104, 105, 110, 103, 92, 117, 48, 48, 51, 49,
             34, 32, 58, 32, 110, 117, 108, 108, 32, 125>>) }

----------------------------------------------------------------------------
(* TypedMessage *)

NoMessage == [message |-> NoRecord, topic |-> [id |-> ""]]

\* TypedMessage::key
TypedMessage_key(m) == m.message.key

\* TypedMessage::topic
TypedMessage_topic(m) == m.topic

\* TypedMessage::payload: None, Some(decoded), or a panic from unwrap
TypedMessage_payload(m) ==
    IF ~m.message.payload.present THEN [kind |-> "None", value |-> ""]
    ELSE LET decoded == serde_json_from_slice(m.message.payload.value)
         IN  IF decoded.ok THEN [kind |-> "Some", value |-> decoded.value]
             ELSE [kind |-> "panic", value |-> ""]

----------------------------------------------------------------------------
(* TypedProducer *)

Callers == {"c1", "c2"}

IdleCaller == [pc |-> "idle", record |-> NoRecord, outcome |-> "none",
               fault |-> "none"]

\* the number of records handed to the raw producer and not yet answered
InFlight == Cardinality({ c \in Callers : producer.callers[c].pc = "awaiting" })

\* TypedProducer::new: config.create().unwrap()
TypedProducer_new ==
    /\ producer.state = "none"
    /\ \E created \in BOOLEAN :
         producer' = [producer EXCEPT !.state =
                         IF created THEN "ready" ELSE "panicked"]
    /\ UNCHANGED <<broker, consumer, admin>>
    /\ UNCHANGED builderVars

inner_send_twice(handed, record) == Append(Append(handed, record), record)

\* self.inner.send(record, timeout): the raw producer takes the record
inner_send(handed, record) == Append(handed, record)

\* TypedProducer::send up to the await: encode, build the record, hand it over
send(c) ==
    /\ producer.state = "ready"
    /\ producer.callers[c].pc \in {"idle", "returned"}
    /\ Len(broker.log) + InFlight < MaxLog
    /\ \E topic \in Topics, payload \in Payloads, key \in OptKeys :
         LET bytes == serde_json_to_vec(payload)
             topic_name == topic_string(topic)
             record == [FutureRecord(topic_name, bytes.value, key)
                          @@ [origin |-> NoOrigin]
                          EXCEPT !.origin = [typed |-> TRUE, topic |-> topic,
                                             payload |-> payload, key |-> key]]
         IN  producer' =
               [producer EXCEPT
                  !.calls = Append(@, [caller |-> c, topic |-> topic,
                                       payload |-> payload, key |-> key]),
                  !.handed =
                     IF ~bytes.ok THEN @
                     ELSE inner_send(@, FutureRecord(topic_name, bytes.value,
                                                     key)),
                  !.callers[c] =
                     IF ~bytes.ok
                     THEN [pc |-> "panicked", record |-> NoRecord,
                           outcome |-> "none", fault |-> "serialize"]
                     ELSE [pc |-> "awaiting", record |-> record,
                           outcome |-> "none", fault |-> "none"]]
    /\ UNCHANGED <<broker, consumer, admin>>
    /\ UNCHANGED builderVars

\* the rest of send: self.inner.send(record, timeout).await.unwrap()
send_await(c) ==
    /\ producer.state = "ready"
    /\ producer.callers[c].pc = "awaiting"
    /\ \/ /\ broker' = [broker EXCEPT
                          !.log = Append(@, producer.callers[c].record)]
          /\ producer' = [producer EXCEPT
                            !.callers[c] = [@ EXCEPT !.pc = "returned",
                                                     !.record = NoRecord,
                                                     !.outcome = "unit"]]
       \/ /\ producer' = [producer EXCEPT
                            !.callers[c] = [@ EXCEPT !.pc = "panicked",
                                                     !.record = NoRecord,
                                                     !.fault = "broker"]]
          /\ UNCHANGED broker
    /\ UNCHANGED <<consumer, admin>>
    /\ UNCHANGED builderVars

\* a record produced on a topic by a client outside this layer
foreign_record ==
    /\ Len(broker.log) + InFlight < MaxLog
    /\ Cardinality({ i \in 1..Len(broker.log) :
                        ~broker.log[i].origin.typed }) < MaxForeign
    /\ \E topic \in Topics, payload \in ForeignPayloads :
         broker' = [broker EXCEPT
                      !.log = Append(@, [topic |-> topic_string(topic),
                                         payload |-> payload,
                                         key |-> None,
                                         origin |-> NoOrigin])]
    /\ UNCHANGED <<producer, consumer, admin>>
    /\ UNCHANGED builderVars

----------------------------------------------------------------------------
(* TypedConsumer *)

NoResult == [kind |-> "none", message |-> NoMessage]
NoPayload == [kind |-> "none", value |-> ""]

TypedConsumer_new_subscribe_all ==
    /\ consumer.state = "none"
    /\ \E topic \in Topics, created \in BOOLEAN, subscribed \in BOOLEAN :
         consumer' =
           IF created /\ subscribed
           THEN [consumer EXCEPT !.state = "ready",
                                 !.topic = topic,
                                 !.subscription =
                                     { topic_string(t) : t \in Topics }]
           ELSE [consumer EXCEPT !.state = "panicked"]
    /\ UNCHANGED <<broker, producer, admin>>
    /\ UNCHANGED builderVars

\* TypedConsumer::new: create().unwrap(), subscribe(&[name]).unwrap()
TypedConsumer_new ==
    /\ consumer.state = "none"
    /\ \E topic \in Topics, created \in BOOLEAN, subscribed \in BOOLEAN :
         consumer' =
           IF created /\ subscribed
           THEN [consumer EXCEPT !.state = "ready",
                                 !.topic = topic,
                                 !.subscription = {topic_string(topic)}]
           ELSE [consumer EXCEPT !.state = "panicked"]
    /\ UNCHANGED <<broker, producer, admin>>
    /\ UNCHANGED builderVars

\* TypedConsumer::topic
TypedConsumer_topic == consumer.topic

\* offsets of the records on subscribed topics not yet delivered
Pending ==
    { i \in 1..Len(broker.log) :
        i > consumer.pos /\ broker.log[i].topic \in consumer.subscription }

\* TypedConsumer::recv: Ok(TypedMessage { message, topic.clone() }) or Err via ?
recv ==
    /\ consumer.state = "ready"
    /\ \/ /\ Pending # {}
          /\ LET i == CHOOSE j \in Pending : \A k \in Pending : j <= k
             IN  consumer' =
                   [consumer EXCEPT
                      !.pos = i,
                      !.result = [kind |-> "Ok",
                                  message |-> [message |-> broker.log[i],
                                               topic |-> consumer.topic]],
                      !.payload = NoPayload]
       \/ consumer' = [consumer EXCEPT
                         !.result = [kind |-> "Err", message |-> NoMessage],
                         !.payload = NoPayload]
    /\ UNCHANGED <<broker, producer, admin>>
    /\ UNCHANGED builderVars

NoStream == [state |-> "none", elements |-> <<>>]

\* TypedConsumer::stream: a new mapped stream over self.inner.stream()
stream ==
    /\ consumer.state = "ready"
    /\ consumer' = [consumer EXCEPT
                      !.stream = [state |-> "open", elements |-> <<>>]]
    /\ UNCHANGED <<broker, producer, admin>>
    /\ UNCHANGED builderVars

stream_next_fused ==
    /\ consumer.state = "ready"
    /\ consumer.stream.state = "open"
    /\ Len(consumer.stream.elements) < MaxElements
    /\ \/ /\ Pending # {}
          /\ LET i == CHOOSE j \in Pending : \A k \in Pending : j <= k
             IN  consumer' =
                   [consumer EXCEPT
                      !.pos = i,
                      !.stream.elements =
                          Append(@, [kind |-> "Ok", offset |-> i,
                                     topic |-> consumer.topic])]
       \/ consumer' = [consumer EXCEPT
                         !.stream.state = "ended",
                         !.stream.elements =
                             Append(@, [kind |-> "Err", offset |-> 0,
                                        topic |-> [id |-> ""]])]
    /\ UNCHANGED <<broker, producer, admin>>
    /\ UNCHANGED builderVars

\* one element of the stream: the raw element, with an Ok message wrapped as
\* TypedMessage { message, topic: self.topic.clone() } and an Err passed on
stream_next ==
    /\ consumer.state = "ready"
    /\ consumer.stream.state = "open"
    /\ Len(consumer.stream.elements) < MaxElements
    /\ \/ /\ Pending # {}
          /\ LET i == CHOOSE j \in Pending : \A k \in Pending : j <= k
             IN  consumer' =
                   [consumer EXCEPT
                      !.pos = i,
                      !.stream.elements =
                          Append(@, [kind |-> "Ok", offset |-> i,
                                     topic |-> consumer.topic])]
       \/ consumer' = [consumer EXCEPT
                         !.stream.elements =
                             Append(@, [kind |-> "Err", offset |-> 0,
                                        topic |-> [id |-> ""]])]
    /\ UNCHANGED <<broker, producer, admin>>
    /\ UNCHANGED builderVars

\* the caller reads message.payload() of the message recv returned
payload ==
    /\ consumer.state = "ready"
    /\ consumer.result.kind = "Ok"
    /\ consumer.payload.kind = "none"
    /\ LET r == TypedMessage_payload(consumer.result.message)
       IN  consumer' =
             IF r.kind = "panic"
             THEN [consumer EXCEPT !.state = "panicked",
                                   !.payload = r]
             ELSE [consumer EXCEPT !.payload = r]
    /\ UNCHANGED <<broker, producer, admin>>
    /\ UNCHANGED builderVars

----------------------------------------------------------------------------
(* TypedAdmin *)

PartitionCounts == {1, 3}
\* TopicReplication::Fixed(n)
Replications == {1, 3}

\* TypedAdmin::new: client_config.create().unwrap()
TypedAdmin_new ==
    /\ admin.state = "none"
    /\ \E created \in BOOLEAN :
         admin' = [admin EXCEPT !.state =
                      IF created THEN "ready" ELSE "panicked"]
    /\ UNCHANGED <<broker, producer, consumer>>
    /\ UNCHANGED builderVars

\* a caller of create_topic before its first call
IdleAdminCaller ==
    [pc |-> "idle", request |-> [name |-> "", num_partitions |-> 0,
                                 replication |-> 0],
     outcome |-> "none", fault |-> "none"]

\* what create_topics answers for one NewTopic: a request-level error, or one
\* per-topic result, which is an error when the name exists already
CreateTopicsAnswers(name) ==
    {"RequestError", "TopicError"}
      \cup (IF name \in broker.topics THEN {} ELSE {"TopicOk"})

\* TypedAdmin::create_topic up to the await: resolve the name, build the
\* NewTopic and issue the create_topics request
create_topic(c) ==
    /\ admin.state = "ready"
    /\ admin.callers[c].pc \in {"idle", "returned"}
    /\ admin.creates < MaxCreates
    /\ \E topic \in Topics, num_partitions \in PartitionCounts,
          replication \in Replications :
         admin' =
           [admin EXCEPT
              !.creates = @ + 1,
              !.callers[c] =
                 [pc |-> "awaiting",
                  request |-> [name |-> topic_string(topic),
                               num_partitions |-> num_partitions,
                               replication |-> replication],
                  outcome |-> "none", fault |-> "none"]]
    /\ UNCHANGED <<broker, producer, consumer>>
    /\ UNCHANGED builderVars

\* the rest of create_topic: the answer to the request arrives and goes through
\* .unwrap().first().unwrap().as_ref().unwrap()
create_topic_await(c) ==
    /\ admin.state = "ready"
    /\ admin.callers[c].pc = "awaiting"
    /\ LET name == admin.callers[c].request.name
       IN  \E answer \in CreateTopicsAnswers(name) :
             /\ broker' = [broker EXCEPT !.topics =
                             IF answer = "TopicOk" THEN @ \cup {name} ELSE @]
             /\ admin' =
                  [admin EXCEPT
                     !.callers[c] =
                        [@ EXCEPT
                           !.pc = IF answer = "TopicOk"
                                  THEN "returned" ELSE "panicked",
                           !.outcome = IF answer = "TopicOk"
                                       THEN "unit" ELSE "none",
                           !.fault = IF answer = "TopicOk" THEN "none"
                                     ELSE IF answer = "RequestError"
                                          THEN "request"
                                          ELSE IF name \in broker.topics
                                               THEN "exists" ELSE "topic"]]
    /\ UNCHANGED <<producer, consumer>>
    /\ UNCHANGED builderVars

----------------------------------------------------------------------------
(* The typed-layer specifications *)

InitTyped ==
    /\ builder = NoBuilder
    /\ built = NoConfig
    /\ lastCall = NoCalls
    /\ ncalls = 0
    /\ broker = [state |-> "up", topics |-> {}, log |-> <<>>]
    /\ producer = [state |-> "none",
                   callers |-> [c \in Callers |-> IdleCaller],
                   calls |-> <<>>, handed |-> <<>>]
    /\ consumer = [state |-> "none", topic |-> [id |-> ""],
                   subscription |-> {}, pos |-> 0,
                   result |-> NoResult, payload |-> NoPayload,
                   stream |-> NoStream]
    /\ admin = [state |-> "none", creates |-> 0,
                callers |-> [c \in Callers |-> IdleAdminCaller]]

NextTyped ==
    \/ TypedProducer_new
    \/ send("c1")
    \/ send_await("c1")
    \/ foreign_record
    \/ TypedConsumer_new
    \/ recv
    \/ payload

SpecTyped == InitTyped /\ [][NextTyped]_vars

\* the consumer side: records arrive on the topics from producers the consumer
\* knows nothing about, and are read through recv and through the stream
NextConsumer ==
    \/ foreign_record
    \/ TypedConsumer_new
    \/ recv
    \/ stream
    \/ stream_next

SpecConsumer == InitTyped /\ [][NextConsumer]_vars

\* several callers sending through one TypedProducer or clones of it
NextConcurrent ==
    \/ TypedProducer_new
    \/ \E c \in Callers : send(c)
    \/ \E c \in Callers : send_await(c)

SpecConcurrent == InitTyped /\ [][NextConcurrent]_vars

NextAdmin ==
    \/ TypedAdmin_new
    \/ \E c \in Callers : create_topic(c)
    \/ \E c \in Callers : create_topic_await(c)

SpecAdmin == InitTyped /\ [][NextAdmin]_vars

----------------------------------------------------------------------------
(* Properties of the builders, checked under SpecBuilder *)

\* the option names written by a Duration-valued setter
DurationKeys ==
    { "connections.max.idle.ms", "metadata.max.age.ms",
      "metrics.sample.window.ms", "reconnect.backoff.max.ms",
      "reconnect.backoff.ms", "request.timeout.ms", "retry.backoff.ms",
      "socket.connection.setup.timeout.max.ms",
      "socket.connection.setup.timeout.ms", "default.api.timeout.ms",
      "heartbeat.interval.ms", "session.timeout.ms", "max.poll.interval.ms" }

\* the entries joined by single commas, a separator between entries only
RECURSIVE join_comma(_)
join_comma(vals) ==
    IF vals = <<>> THEN ""
    ELSE IF Len(vals) = 1 THEN Head(vals)
    ELSE Head(vals) \o "," \o join_comma(Tail(vals))

\* C1: the built configuration maps every option name that was set to the
\* value of the last call that set it, and holds no other name.
C1_LastWriteWins ==
    built.present =>
        /\ DOMAIN built.config = DOMAIN lastCall
        /\ \A k \in DOMAIN lastCall : built.config[k] = lastCall[k].value

\* a built configuration in which one name was overwritten with a different
\* value while another name was set as well
C1_Witness ==
    /\ built.present
    /\ \E k \in DOMAIN lastCall :
         /\ lastCall[k].changed
         /\ built.config[k] = lastCall[k].value
         /\ DOMAIN built.config # {k}

\* C2: every option written by a Duration-valued setter holds the duration
\* in whole milliseconds, on every role builder.
C2_DurationsInMillis ==
    \A k \in (DOMAIN builder.config) \cap DurationKeys :
        builder.config[k] = int_to_string(as_millis(lastCall[k].arg))

\* C7: bootstrap_servers stores the entries joined by single commas, in
\* order, with a separator between consecutive entries only.
C7_BootstrapServersJoined ==
    "bootstrap.servers" \in DOMAIN builder.config =>
        builder.config["bootstrap.servers"]
            = join_comma(lastCall["bootstrap.servers"].arg)

\* C8: build returns the configuration accumulated by every call made
\* before it, and once returned that configuration never changes.
C8_BuildTerminal ==
    [][ /\ (~built.present /\ built'.present) =>
              /\ built'.config = builder.config
              /\ \A k \in DOMAIN lastCall :
                    /\ k \in DOMAIN built'.config
                    /\ built'.config[k] = lastCall[k].value
        /\ built.present => (built' = built /\ builder'.state = "moved") ]_vars

\* a configuration built after the full chain of setter calls
C8_Witness ==
    /\ built.present
    /\ builder.state = "moved"
    /\ ncalls = MaxCalls
    /\ built.config = builder.config
    /\ Cardinality(DOMAIN built.config) >= 2

\* C9: a name no call has set is absent: a new builder holds no options,
\* and an Admin builder on which retries was never called builds a
\* configuration without a "retries" entry.
C9_UnsetIsAbsent ==
    /\ builder.state # "none" => DOMAIN builder.config \subseteq DOMAIN lastCall
    /\ (builder.state = "open" /\ ncalls = 0) => DOMAIN builder.config = {}
    /\ built.present => DOMAIN built.config \subseteq DOMAIN lastCall
    /\ (built.present /\ builder.role = "Admin"
          /\ "retries" \notin DOMAIN lastCall)
         => "retries" \notin DOMAIN built.config

\* an Admin configuration built after other setters but without retries
C9_Witness ==
    /\ built.present
    /\ builder.role = "Admin"
    /\ ncalls >= 2
    /\ "retries" \notin DOMAIN lastCall
    /\ "retries" \notin DOMAIN built.config

\* C10: a setter call writes exactly one option name; every other name keeps
\* its presence and its value.
C10_OneOptionPerCall ==
    [][ ncalls' = ncalls + 1 =>
          \E key \in DOMAIN builder'.config :
             /\ DOMAIN builder'.config = (DOMAIN builder.config) \cup {key}
             /\ \A k \in (DOMAIN builder.config) \ {key} :
                   builder'.config[k] = builder.config[k] ]_vars

\* a builder holding several options after the full chain of calls
C10_Witness ==
    /\ builder.state = "open"
    /\ ncalls = MaxCalls
    /\ Cardinality(DOMAIN builder.config) >= 2

----------------------------------------------------------------------------
(* Properties of the typed layer, checked under SpecTyped and SpecAdmin *)

\* C3: send never aborts its caller; a payload that fails to serialize is
\* reported as a serialization failure and a failed broker send as a
\* broker-level failure.
C3_SendReportsFailures ==
    \A c \in Callers :
        /\ producer.callers[c].pc # "panicked"
        /\ producer.callers[c].fault = "serialize"
             => producer.callers[c].outcome = "SerializationError"
        /\ producer.callers[c].fault = "broker"
             => producer.callers[c].outcome = "BrokerError"

\* C4: payload yields None only for a message without payload, and reports
\* a serialization error, without a crash, for bytes that do not decode.
C4_DecodeFailureIsError ==
    /\ consumer.payload.kind = "None"
         => ~consumer.result.message.message.payload.present
    /\ (/\ consumer.payload.kind # "none"
        /\ consumer.result.message.message.payload.present
        /\ ~serde_json_from_slice(
               consumer.result.message.message.payload.value).ok)
         => /\ consumer.payload.kind = "SerializationError"
            /\ consumer.state # "panicked"

\* C5: every failed creation is returned to the caller as an administrative
\* failure: the caller is not aborted, also for a name that exists already.
C5_CreateTopicReportsFailures ==
    \A c \in Callers :
        admin.callers[c].fault # "none" =>
            /\ admin.callers[c].pc # "panicked"
            /\ admin.callers[c].outcome = "AdminError"

\* C6: a message that a send of payload P under topic T with key K put on
\* the broker reaches a consumer of T with payload P, a topic of the same
\* name, and the bytes of K as key (no key if none was passed).
C6_RoundTrip ==
    LET m == consumer.result.message
        o == m.message.origin
    IN  (consumer.result.kind = "Ok" /\ o.typed) =>
            /\ TypedMessage_payload(m) = [kind |-> "Some", value |-> o.payload]
            /\ topic_string(TypedMessage_topic(m)) = topic_string(o.topic)
            /\ topic_string(TypedConsumer_topic) = topic_string(o.topic)
            /\ TypedMessage_key(m)
                 = IF o.key.present THEN Some(as_bytes(o.key.value)) ELSE None
            /\ consumer.payload.kind # "none"
                 => consumer.payload = [kind |-> "Some", value |-> o.payload]

\* a consumer that received and decoded a sent message whose key has a
\* character of two bytes and one of four bytes
C6_Witness ==
    /\ consumer.result.kind = "Ok"
    /\ consumer.result.message.message.origin.typed
    /\ consumer.result.message.message.origin.key.present
    /\ Len(consumer.result.message.message.key.value) = 7
    /\ consumer.payload.kind = "Some"

\* the elements of the stream that are typed messages, as positions
OkElements ==
    { n \in 1..Len(consumer.stream.elements) :
        consumer.stream.elements[n].kind = "Ok" }

\* C11: every element of the stream is either a broker error or a typed
\* message; an error element does not end the stream, the messages before and
\* after it are delivered in arrival order, and each message carries a copy of
\* the consumer's bound topic.
C11_StreamElements ==
    LET es == consumer.stream.elements
    IN  /\ \A n \in 1..Len(es) : es[n].kind \in {"Ok", "Err"}
        /\ es # <<>> => consumer.stream.state = "open"
        /\ \A n \in OkElements :
              /\ es[n].topic = TypedConsumer_topic
              /\ es[n].offset \in 1..Len(broker.log)
              /\ broker.log[es[n].offset].topic
                    = topic_string(TypedConsumer_topic)
        /\ \A n, m \in OkElements : n < m => es[n].offset < es[m].offset

\* a stream that delivered a message, then an error, then a later message
C11_Witness ==
    /\ Len(consumer.stream.elements) = 3
    /\ consumer.stream.elements[1].kind = "Ok"
    /\ consumer.stream.elements[2].kind = "Err"
    /\ consumer.stream.elements[3].kind = "Ok"

\* the name the constructed consumer is bound to
BoundName == topic_string(TypedConsumer_topic)

\* C12: from TypedConsumer::new on, through every recv and stream call, also
\* the failing ones, the raw consumer is subscribed to exactly the name of the
\* topic given to new, topic() and every returned message resolve to that
\* name, and neither the subscription nor the bound topic ever changes.
C12_SubscriptionFixed ==
    /\ [](consumer.state = "ready" =>
            /\ consumer.subscription = {BoundName}
            /\ consumer.result.kind = "Ok" =>
                  /\ topic_string(TypedMessage_topic(consumer.result.message))
                        = BoundName
                  /\ consumer.result.message.message.topic = BoundName
            /\ \A n \in OkElements :
                  /\ topic_string(consumer.stream.elements[n].topic)
                        = BoundName
                  /\ broker.log[consumer.stream.elements[n].offset].topic
                        = BoundName)
    /\ [][consumer.state = "ready" =>
               /\ consumer'.state = "ready"
               /\ consumer'.subscription = consumer.subscription
               /\ consumer'.topic = consumer.topic]_vars

\* a consumer whose last recv failed after its stream delivered a message and
\* an error, while a record of the other topic is on the broker
C12_Witness ==
    /\ consumer.state = "ready"
    /\ consumer.result.kind = "Err"
    /\ \E n \in OkElements : TRUE
    /\ \E n \in 1..Len(consumer.stream.elements) :
          consumer.stream.elements[n].kind = "Err"
    /\ \E i \in 1..Len(broker.log) : broker.log[i].topic # BoundName

\* the record the raw producer is to receive for one call of send
RecordOf(call) ==
    [topic |-> topic_string(call.topic),
     payload |-> Some(serde_json_to_vec(call.payload).value),
     key |-> IF call.key.present THEN Some(as_bytes(call.key.value))
             ELSE None]

\* the calls of send whose payload serializes, in the order they were issued
Serializable ==
    SelectSeq(producer.calls, LAMBDA call : serde_json_to_vec(call.payload).ok)

\* C13 as stated: the raw producer receives exactly one record for every call
\* of send, in call order, with the call's topic name, payload bytes and key.
C13_OneRecordPerSend ==
    /\ Len(producer.handed) = Len(producer.calls)
    /\ \A n \in 1..Len(producer.calls) :
          n <= Len(producer.handed)
            => producer.handed[n] = RecordOf(producer.calls[n])

\* C13 amended: the raw producer receives exactly one record for every call
\* of send whose payload serializes and none for a call whose payload does
\* not, in call order, with the call's topic name, payload bytes and key.
C13_OneRecordPerSerializableSend ==
    /\ Len(producer.handed) = Len(Serializable)
    /\ \A n \in 1..Len(Serializable) :
          n <= Len(producer.handed)
            => producer.handed[n] = RecordOf(Serializable[n])

\* two records handed over for three calls, the second of which could not be
\* serialized, on different topics and with and without a key
C13_Witness ==
    /\ Len(producer.calls) = 3
    /\ ~serde_json_to_vec(producer.calls[2].payload).ok
    /\ Len(producer.handed) = 2
    /\ producer.handed[1].topic # producer.handed[2].topic
    /\ producer.handed[1].key # producer.handed[2].key

\* the text the shared trait setter of an option stores for an argument, as
\* on a Producer or Admin builder
TraitValue(key, arg) ==
    IF key = "connections.max.idle.ms" THEN int_to_string(as_millis(arg))
    ELSE int_to_string(as_micros(arg))

\* C14: connections_max_idle and the default API timeout setter store, for
\* the same argument, the same text under 'connections.max.idle.ms' and
\* 'default.api.timeout.ms' on every role builder that offers them, the
\* Consumer builder included.
C14_SameValueOnEveryRole ==
    \A k \in (DOMAIN builder.config)
              \cap {"connections.max.idle.ms", "default.api.timeout.ms"} :
        builder.config[k] = TraitValue(k, lastCall[k].arg)

\* the calls of send one caller issued, in order
CallsOf(c) == SelectSeq(producer.calls, LAMBDA call : call.caller = c)

\* C15: under every interleaving of the callers of one TypedProducer, the
\* record a caller has in flight is the record of its own latest call, every
\* caller whose send ended received an outcome for its own record (success,
\* or the failure it met), and no caller is aborted by a failing send.
C15_ConcurrentSends ==
    \A c \in Callers :
        LET st == producer.callers[c]
        IN  /\ st.pc = "awaiting" =>
                  /\ CallsOf(c) # <<>>
                  /\ [topic |-> st.record.topic,
                      payload |-> st.record.payload,
                      key |-> st.record.key]
                       = RecordOf(CallsOf(c)[Len(CallsOf(c))])
            /\ st.pc = "returned" => st.outcome = "unit" /\ st.fault = "none"
            /\ st.fault # "none" =>
                  /\ st.pc # "panicked"
                  /\ st.outcome \in {"SerializationError", "BrokerError"}

====
